---- MODULE Spec2Model ----
(***************************************************************************)
(* A model of parkett's main script (src/unnamed/part_001, lines 215-905): *)
(* the stored query result, the plot options, the table/plot view, the    *)
(* data that plotTable hands to the charting widget, the CSV export and    *)
(* the loads as they run from one await to the next.                       *)
(*                                                                         *)
(* JavaScript values are tagged records [t, n, s]: the type, the number of *)
(* a number or boolean, the characters of a string (one-character strings, *)
(* so that Number() and property-key order are computed from them).        *)
(* Numbers are integers.                                                   *)
(***************************************************************************)
EXTENDS Integers, Sequences, FiniteSets, TLC

VARIABLES
    lastQueryResults,   \* let lastQueryResults: NoResults or a sequence of rows
    plotOptions,        \* let plotOptions = { xAxisColumn, lineColor }
    tableContainer,     \* #tableContainer: [display, html]
    plotContainer,      \* #plotContainer: [display, html]
    plotButtonText,     \* #plotButton.textContent
    xAxisSelect,        \* #xAxisSelect: the option values, in order
    currentPlots,       \* let currentPlots: the plots handed to uPlot
    dataGroups,         \* plotTable's dataGroups at the end of its last call
    fileColorMap,       \* plotTable's fileColorMap at the end of its last call
    plotStatus,         \* how the last plotTable call ended
    lastAlert,          \* the message of the last alert(...), "" before any
    download,           \* the last CSV handed to the browser: [made, text]
    progress,           \* #progressContainer / #progressFill: [display, percent]
    fileInput,          \* fileInput.files: the names of the selected files
    queryText,          \* codeMirror.getValue(): the pieces of the query text
    loadedFiles,        \* let loadedFiles: the names, in order
    registeredFiles,    \* the names registered with db.registerFileBuffer
    queriesIssued,      \* the number of conn.query calls made
    loads,              \* the loadParquetFile executions suspended at an await
    loadsStarted,       \* the number of loadParquetFile calls made
    storedBy,           \* the load that made the last assignment to lastQueryResults
    succeeded,          \* the loads that stored their rows
    resizeHandler,      \* let resizeHandler: the listener closure on window, 0 for null
    timers,             \* the pending setTimeout timers: [owner, remaining]
    passesSinceResize   \* the setSize passes run since the last resize event

view == <<tableContainer, plotContainer, plotButtonText, xAxisSelect,
          currentPlots, dataGroups, fileColorMap, plotStatus, resizeHandler>>

session == <<progress, fileInput, queryText, loadedFiles, registeredFiles,
             queriesIssued, loads, loadsStarted, storedBy, succeeded>>

resizing == <<timers, passesSinceResize>>

vars == <<lastQueryResults, plotOptions, view, lastAlert, download, session,
          resizing>>

----------------------------------------------------------------------------
(* Bounds of the model *)

MaxRows == 3

----------------------------------------------------------------------------
(* JavaScript values *)

Null == [t |-> "null", n |-> 0, s |-> <<>>]
Undefined == [t |-> "undefined", n |-> 0, s |-> <<>>]
NaN == [t |-> "nan", n |-> 0, s |-> <<>>]
Num(n) == [t |-> "num", n |-> n, s |-> <<>>]
Str(s) == [t |-> "str", n |-> 0, s |-> s]
Bool(b) == [t |-> "bool", n |-> IF b THEN 1 ELSE 0, s |-> <<>>]

(* lastQueryResults: null, or the rows of the last successful query *)
NoResults == [set |-> FALSE, rows |-> <<>>]
Results(rows) == [set |-> TRUE, rows |-> rows]

Range(s) == {s[i] : i \in DOMAIN s}

Digits == <<"0", "1", "2", "3", "4", "5", "6", "7", "8", "9">>

IsDigit(c) == c \in Range(Digits)

DigitVal(c) == (CHOOSE d \in 1..Len(Digits) : Digits[d] = c) - 1

RECURSIVE DigitsValue(_)
DigitsValue(s) ==
    IF Len(s) = 0 THEN 0
    ELSE DigitsValue(SubSeq(s, 1, Len(s) - 1)) * Len(Digits) + DigitVal(s[Len(s)])

AllDigits(s) == \A i \in DOMAIN s : IsDigit(s[i])

RECURSIVE NatToStr(_)
NatToStr(n) ==
    IF n < Len(Digits) THEN <<Digits[n + 1]>>
    ELSE NatToStr(n \div Len(Digits)) \o <<Digits[(n % Len(Digits)) + 1]>>

NumberToString(n) == IF n < 0 THEN <<"-">> \o NatToStr(-n) ELSE NatToStr(n)

WhiteSpace == {" ", "\t", "\n"}

RECURSIVE TrimLeft(_)
TrimLeft(s) ==
    IF Len(s) > 0 /\ s[1] \in WhiteSpace THEN TrimLeft(Tail(s)) ELSE s

RECURSIVE TrimRight(_)
TrimRight(s) ==
    IF Len(s) > 0 /\ s[Len(s)] \in WhiteSpace
    THEN TrimRight(SubSeq(s, 1, Len(s) - 1)) ELSE s

(* StringToNumber on the modelled alphabet: white space is trimmed, the    *)
(* empty string is 0, an optionally signed run of digits is its value and  *)
(* anything else is NaN.                                                   *)
StringToNumber(s) ==
    LET u == TrimRight(TrimLeft(s))
    IN  IF Len(u) = 0 THEN Num(0)
        ELSE IF AllDigits(u) THEN Num(DigitsValue(u))
        ELSE IF u[1] \in {"-", "+"} /\ Len(u) > 1 /\ AllDigits(Tail(u))
             THEN Num(IF u[1] = "-" THEN 0 - DigitsValue(Tail(u))
                      ELSE DigitsValue(Tail(u)))
        ELSE NaN

(* Number(val) *)
Number(val) ==
    CASE val.t = "num" -> val
      [] val.t = "nan" -> NaN
      [] val.t = "str" -> StringToNumber(val.s)
      [] val.t = "bool" -> Num(val.n)
      [] val.t = "null" -> Num(0)
      [] OTHER -> NaN

(* val === null || val === undefined ? null : Number(val) *)
NullOrNumber(val) ==
    IF val.t \in {"null", "undefined"} THEN Null ELSE Number(val)

(* String(val), as used for a property key *)
ToPropertyKey(val) ==
    CASE val.t = "str" -> val.s
      [] val.t = "num" -> NumberToString(val.n)
      [] val.t = "nan" -> <<"N", "a", "N">>
      [] val.t = "bool" -> IF val.n = 1 THEN <<"t", "r", "u", "e">>
                           ELSE <<"f", "a", "l", "s", "e">>
      [] val.t = "null" -> <<"n", "u", "l", "l">>
      [] OTHER -> <<"u", "n", "d", "e", "f", "i", "n", "e", "d">>

----------------------------------------------------------------------------
(* Rows: a row is a function from column names to cells.  Object.keys of a *)
(* row is its columns in the order of the query's column list.             *)

ColumnOrder == <<"filename", "filename_index", "a", "b", "p,q">>

RowKeys(row) == SelectSeq(ColumnOrder, LAMBDA c : c \in DOMAIN row)

(* row[col] *)
Get(row, col) == IF col \in DOMAIN row THEN row[col] ELSE Undefined

(* The characters of a column name *)
ColumnChars(col) ==
    CASE col = "filename" -> <<"f", "i", "l", "e", "n", "a", "m", "e">>
      [] col = "filename_index" ->
           <<"f", "i", "l", "e", "n", "a", "m", "e", "_", "i", "n", "d", "e", "x">>
      [] col = "a" -> <<"a">>
      [] col = "b" -> <<"b">>
      [] col = "p,q" -> <<"p", ",", "q">>

----------------------------------------------------------------------------
(* exportToCSV: the CSV text of a non-empty array of rows, as characters *)

(* String(value) *)
StringOf(value) == ToPropertyKey(value)

(* parts.join(sep) *)
RECURSIVE Join(_, _)
Join(parts, sep) ==
    IF Len(parts) = 0 THEN <<>>
    ELSE IF Len(parts) = 1 THEN parts[1]
    ELSE Join(SubSeq(parts, 1, Len(parts) - 1), sep) \o <<sep>> \o parts[Len(parts)]

(* value.includes(c) *)
Includes(value, c) == \E i \in DOMAIN value : value[i] = c

(* value.replace(/"/g, '""') *)
RECURSIVE DoubleQuotes(_)
DoubleQuotes(value) ==
    IF Len(value) = 0 THEN <<>>
    ELSE (IF value[1] = "\"" THEN <<"\"", "\"">> ELSE <<value[1]>>)
           \o DoubleQuotes(Tail(value))

(* Mutant of CsvField: a field is wrapped in quotes without doubling the   *)
(* quotes inside it                                                        *)
CsvField_QuotesNotDoubled(cell) ==
    IF cell.t \in {"null", "undefined"} THEN <<>>
    ELSE LET value == StringOf(cell)
         IN  IF Includes(value, ",") \/ Includes(value, "\"") \/ Includes(value, "\n")
             THEN <<"\"">> \o value \o <<"\"">>
             ELSE value

(* headers.map((header) => { let value = row[header]; ... return value }) *)
CsvField(cell) ==
    IF cell.t \in {"null", "undefined"} THEN <<>>
    ELSE LET value == StringOf(cell)
         IN  IF Includes(value, ",") \/ Includes(value, "\"") \/ Includes(value, "\n")
             THEN <<"\"">> \o DoubleQuotes(value) \o <<"\"">>
             ELSE value

(* values.join(",") + "\n" for one row *)
CsvLine(row, headers) ==
    Join([h \in DOMAIN headers |-> CsvField(Get(row, headers[h]))], ",") \o <<"\n">>

RECURSIVE CsvLines(_, _, _)
CsvLines(data, headers, n) ==
    IF n = 0 THEN <<>>
    ELSE CsvLines(data, headers, n - 1) \o CsvLine(data[n], headers)

(* csvContent: headers.join(",") + "\n", then one line per row *)
CsvContent(data) ==
    LET headers == RowKeys(data[1])
    IN  Join([h \in DOMAIN headers |-> ColumnChars(headers[h])], ",") \o <<"\n">>
          \o CsvLines(data, headers, Len(data))

----------------------------------------------------------------------------
(* Plain objects used as maps: let dataGroups = {}.  An object is the      *)
(* sequence of its own properties [key, rows] in creation order; a lookup  *)
(* that finds no own property continues on Object.prototype.               *)

ObjectPrototypeKeys ==
    { <<"c", "o", "n", "s", "t", "r", "u", "c", "t", "o", "r">>,
      <<"_", "_", "p", "r", "o", "t", "o", "_", "_">>,
      <<"t", "o", "S", "t", "r", "i", "n", "g">>,
      <<"v", "a", "l", "u", "e", "O", "f">> }

HasOwn(obj, k) == \E i \in DOMAIN obj : obj[i].key = k

GetOwn(obj, k) == obj[CHOOSE i \in DOMAIN obj : obj[i].key = k].rows

OwnKeys(obj) == [i \in DOMAIN obj |-> obj[i].key]

(* An array index: a canonical numeric string below 2^32 - 1.  Keys of ten *)
(* digits or more are beyond the integers of the model and of its inputs.  *)
IsArrayIndex(k) ==
    /\ Len(k) > 0
    /\ AllDigits(k)
    /\ (Len(k) = 1 \/ k[1] # "0")
    /\ Len(k) < 10

RECURSIVE AscendingIndices(_)
AscendingIndices(S) ==
    IF S = {} THEN <<>>
    ELSE LET m == CHOOSE k \in S : \A o \in S : DigitsValue(k) <= DigitsValue(o)
         IN  <<m>> \o AscendingIndices(S \ {m})

(* Object.keys(obj): the array-index keys in ascending numeric order, then *)
(* the other string keys in creation order.                                *)
ObjectKeys(obj) ==
    LET ks == OwnKeys(obj)
    IN  AscendingIndices({k \in Range(ks) : IsArrayIndex(k)})
          \o SelectSeq(ks, LAMBDA k : ~IsArrayIndex(k))

----------------------------------------------------------------------------
(* plotTable: grouping and colours *)

COLOR_PALETTE ==
    <<"#4a90e2", "#e74c3c", "#2ecc71", "#f39c12", "#9b59b6",
      "#1abc9c", "#e67e22", "#34495e", "#16a085", "#c0392b">>

DefaultKey == <<"d", "e", "f", "a", "u", "l", "t">>

(* const hasOriginColumn = data[0] && "filename" in data[0] *)
HasOriginColumn(data) == Len(data) > 0 /\ "filename" \in DOMAIN data[1]

(* Object.keys(data[0]).filter(col !== "filename" && col !== "filename_index") *)
ColumnNames(data) ==
    SelectSeq(RowKeys(data[1]),
              LAMBDA col : col # "filename" /\ col # "filename_index")

(* One pass of data.forEach((row) => { ... dataGroups[filename].push(row) }) *)
GroupStep(prev, row) ==
    LET filename == ToPropertyKey(Get(row, "filename"))
    IN  IF prev.threw THEN prev
        ELSE IF HasOwn(prev.obj, filename)
        THEN [prev EXCEPT !.obj =
                [i \in DOMAIN prev.obj |->
                    IF prev.obj[i].key = filename
                    THEN [prev.obj[i] EXCEPT !.rows = Append(@, row)]
                    ELSE prev.obj[i]]]
        ELSE IF filename \in ObjectPrototypeKeys
        THEN \* dataGroups[filename] is inherited and truthy: .push is not a function
             [prev EXCEPT !.threw = TRUE]
        ELSE [prev EXCEPT !.obj = Append(@, [key |-> filename, rows |-> <<row>>])]

RECURSIVE GroupRows(_, _)
GroupRows(data, n) ==
    IF n = 0 THEN [threw |-> FALSE, obj |-> <<>>]
    ELSE GroupStep(GroupRows(data, n - 1), data[n])

(* Mutant of BuildDataGroups: rows are grouped by row.filename also when   *)
(* the first row has no filename column                                    *)
BuildDataGroups_AlwaysByFilename(data) == GroupRows(data, Len(data))

(* let dataGroups = {} ... as filled by plotTable: [threw, obj] *)
BuildDataGroups(data) ==
    IF HasOriginColumn(data) THEN GroupRows(data, Len(data))
    ELSE [threw |-> FALSE, obj |-> <<[key |-> DefaultKey, rows |-> data]>>]

(* Mutant of PaletteColor: past the palette's end the last colour is used  *)
PaletteColor_NoWrap(idx) ==
    COLOR_PALETTE[IF idx < Len(COLOR_PALETTE) THEN idx + 1 ELSE Len(COLOR_PALETTE)]

(* COLOR_PALETTE[idx % COLOR_PALETTE.length] *)
PaletteColor(idx) == COLOR_PALETTE[(idx % Len(COLOR_PALETTE)) + 1]

(* let fileColorMap = {} ... as filled by plotTable *)
BuildFileColorMap(data, obj, opts) ==
    IF HasOriginColumn(data)
    THEN LET filenames == ObjectKeys(obj)
         IN  [k \in Range(filenames) |->
                PaletteColor((CHOOSE i \in DOMAIN filenames : filenames[i] = k) - 1)]
    ELSE [k \in {DefaultKey} |-> opts.lineColor]

----------------------------------------------------------------------------
(* plotTable: the x and y sequences of one subplot *)

(* series[0].label *)
XLabel(opts) ==
    IF opts.xAxisColumn = "__index__" THEN "Global Index"
    ELSE IF opts.xAxisColumn = "filename_index" THEN "File Index"
    ELSE opts.xAxisColumn

(* const xData = ... of one file, in the loop that fills allXValues *)
GroupXData(fileData, opts) ==
    IF opts.xAxisColumn = "__index__"
    THEN [i \in DOMAIN fileData |-> Num(i - 1)]
    ELSE IF opts.xAxisColumn = "filename_index"
    THEN [i \in DOMAIN fileData |-> NullOrNumber(Get(fileData[i], "filename_index"))]
    ELSE [i \in DOMAIN fileData |-> NullOrNumber(Get(fileData[i], opts.xAxisColumn))]

(* The groups in the order of Object.keys(dataGroups) *)
OrderedGroups(obj) ==
    LET filenames == ObjectKeys(obj)
    IN  [i \in DOMAIN filenames |->
            [key |-> filenames[i], rows |-> GetOwn(obj, filenames[i])]]

RECURSIVE ConcatXData(_, _, _)
ConcatXData(groups, opts, n) ==
    IF n = 0 THEN <<>>
    ELSE ConcatXData(groups, opts, n - 1) \o GroupXData(groups[n].rows, opts)

(* allXValues after filenames.forEach(... allXValues.push(...xData)) *)
AllXValues(obj, opts) ==
    LET groups == OrderedGroups(obj) IN ConcatXData(groups, opts, Len(groups))

(* [...new Set(xs)]: the first occurrence of each value, in order *)
RECURSIVE SetOrder(_)
SetOrder(xs) ==
    IF Len(xs) = 0 THEN <<>>
    ELSE LET front == SetOrder(SubSeq(xs, 1, Len(xs) - 1))
             x == xs[Len(xs)]
         IN  IF x \in Range(front) THEN front ELSE Append(front, x)

(* (a, b) => a - b, as Array.prototype.sort reads it: null counts as 0 and *)
(* a NaN result counts as +0.                                              *)
CompareFn(a, b) ==
    IF a.t = "nan" \/ b.t = "nan" THEN 0
    ELSE (IF a.t = "num" THEN a.n ELSE 0) - (IF b.t = "num" THEN b.n ELSE 0)

(* Whether CompareFn is a consistent comparator for the elements of xs *)
ConsistentComparator(xs) ==
    \A a, b, c \in Range(xs) :
        /\ (CompareFn(a, b) = 0 /\ CompareFn(b, c) = 0) => CompareFn(a, c) = 0
        /\ (CompareFn(a, b) < 0 /\ CompareFn(b, c) < 0) => CompareFn(a, c) < 0
        /\ (CompareFn(a, b) = 0) => ((CompareFn(a, c) < 0) <=> (CompareFn(b, c) < 0))
        /\ (CompareFn(a, b) = 0) => ((CompareFn(c, a) < 0) <=> (CompareFn(c, b) < 0))

RECURSIVE InsertSorted(_, _)
InsertSorted(sorted, x) ==
    IF Len(sorted) = 0 THEN <<x>>
    ELSE IF CompareFn(sorted[Len(sorted)], x) <= 0 THEN Append(sorted, x)
    ELSE Append(InsertSorted(SubSeq(sorted, 1, Len(sorted) - 1), x),
                sorted[Len(sorted)])

RECURSIVE StableSort(_)
StableSort(xs) ==
    IF Len(xs) = 0 THEN <<>>
    ELSE InsertSorted(StableSort(SubSeq(xs, 1, Len(xs) - 1)), xs[Len(xs)])

(* xs.sort((a, b) => a - b): the stable sort when the comparator is        *)
(* consistent for xs; otherwise the order is implementation-defined, any   *)
(* permutation of xs.                                                      *)
SortOutcomes(xs) ==
    IF ConsistentComparator(xs) THEN {StableSort(xs)}
    ELSE {p \in [DOMAIN xs -> Range(xs)] : Range(p) = Range(xs)}

(* Whether plotTable sorts allXValues: multi-file mode, a column as x axis *)
SortsXValues(data, opts) ==
    /\ HasOriginColumn(data)
    /\ opts.xAxisColumn \notin {"__index__", "filename_index"}

(* The outcomes of [...new Set(allXValues)].sort((a, b) => a - b) *)
SortedXChoices(data, obj, opts) ==
    IF SortsXValues(data, opts) THEN SortOutcomes(SetOrder(AllXValues(obj, opts)))
    ELSE {<<>>}

(* plotData[0] in multi-file mode *)
MultiFileXAxis(data, opts, sortedX) ==
    IF opts.xAxisColumn = "__index__"
    THEN [i \in 1..Len(data) |-> Num(i - 1)]
    ELSE IF opts.xAxisColumn = "filename_index"
    THEN [i \in DOMAIN data |-> Number(Get(data[i], "filename_index"))]
    ELSE sortedX

(* const yData / const columnData: one column of some rows, cast *)
ColumnData(rows, columnName) ==
    [i \in DOMAIN rows |-> NullOrNumber(Get(rows[i], columnName))]

(* Mutant of SingleFileXAxis: the index axis counts from 1 *)
SingleFileXAxis_OneBased(data, opts) ==
    IF opts.xAxisColumn = "__index__"
    THEN [i \in DOMAIN data |-> Num(i)]
    ELSE [i \in DOMAIN data |-> NullOrNumber(Get(data[i], opts.xAxisColumn))]

(* const xAxisData in single-file mode *)
SingleFileXAxis(data, opts) ==
    IF opts.xAxisColumn = "__index__"
    THEN [i \in DOMAIN data |-> Num(i - 1)]
    ELSE [i \in DOMAIN data |-> NullOrNumber(Get(data[i], opts.xAxisColumn))]

DEFAULT_Y_AXIS_WIDTH == 60

CHAR_WIDTH_ESTIMATE == 8

(* Math.max(a, b) *)
MathMax(a, b) == IF a >= b THEN a ELSE b

(* Math.floor(x); the numbers of the model are integers *)
MathFloor(x) == x

(* columnData.filter((v) => v !== null && !isNaN(v)), as the set of numbers *)
ValidData(data, columnName) ==
    {NullOrNumber(Get(data[i], columnName)).n : i \in
        {j \in DOMAIN data : NullOrNumber(Get(data[j], columnName)).t = "num"}}

(* Math.min(...validData), Math.max(...validData) *)
MinOf(S) == CHOOSE m \in S : \A o \in S : m <= o

MaxOf(S) == CHOOSE m \in S : \A o \in S : m >= o

(* String(Math.floor(v)).length *)
LabelLength(v) == Len(NumberToString(MathFloor(v)))

(* Mutant of EstimatedWidth: only the maximum's label is measured *)
EstimatedWidth_MaxOnly(validData) ==
    LabelLength(MaxOf(validData)) * CHAR_WIDTH_ESTIMATE + 20

(* const estimatedWidth = maxLabelLength * CHAR_WIDTH_ESTIMATE + 20 *)
EstimatedWidth(validData) ==
    MathMax(LabelLength(MinOf(validData)), LabelLength(MaxOf(validData)))
        * CHAR_WIDTH_ESTIMATE + 20

(* maxYAxisWidth after the first n passes of columnNames.forEach *)
RECURSIVE YAxisWidthAfter(_, _, _)
YAxisWidthAfter(data, columnNames, n) ==
    IF n = 0 THEN DEFAULT_Y_AXIS_WIDTH
    ELSE LET width == YAxisWidthAfter(data, columnNames, n - 1)
             validData == ValidData(data, columnNames[n])
         IN  IF validData # {} THEN MathMax(width, EstimatedWidth(validData))
             ELSE width

(* let maxYAxisWidth, as used for axes[1].size *)
MaxYAxisWidth(data) ==
    YAxisWidthAfter(data, ColumnNames(data), Len(ColumnNames(data)))

(* Mutant of SingleFileStroke: the stroke is looked up in the palette *)
SingleFileStroke_FromPalette(opts) == PaletteColor(1)

(* stroke: plotOptions.lineColor, of the series of a single-file subplot *)
SingleFileStroke(opts) == opts.lineColor

(* Mutant of Subplot: each file's y sequence is padded with nulls to the    *)
(* length of the shared x sequence                                         *)
Subplot_PaddedY(data, obj, colors, opts, columnName, sortedX) ==
    IF HasOriginColumn(data)
    THEN LET groups == OrderedGroups(obj)
             xs == MultiFileXAxis(data, opts, sortedX)
         IN  [title |-> columnName,
              xLabel |-> XLabel(opts),
              size |-> MaxYAxisWidth(data),
              series |-> [i \in DOMAIN groups |->
                            [label |-> groups[i].key,
                             stroke |-> colors[groups[i].key]]],
              data |-> <<xs>>
                         \o [i \in DOMAIN groups |->
                               LET ys == ColumnData(groups[i].rows, columnName)
                               IN  [j \in 1..(IF Len(xs) > Len(ys) THEN Len(xs) ELSE Len(ys)) |->
                                      IF j <= Len(ys) THEN ys[j] ELSE Null]]]
    ELSE [title |-> columnName,
          xLabel |-> XLabel(opts),
          size |-> MaxYAxisWidth(data),
          series |-> <<[label |-> columnName, stroke |-> SingleFileStroke(opts)]>>,
          data |-> <<SingleFileXAxis(data, opts), ColumnData(data, columnName)>>]

(* What one pass of columnNames.forEach hands to new uPlot(opts, plotData) *)
Subplot(data, obj, colors, opts, columnName, sortedX) ==
    IF HasOriginColumn(data)
    THEN LET groups == OrderedGroups(obj)
         IN  [title |-> columnName,
              xLabel |-> XLabel(opts),
              size |-> MaxYAxisWidth(data),
              series |-> [i \in DOMAIN groups |->
                            [label |-> groups[i].key,
                             stroke |-> colors[groups[i].key]]],
              data |-> <<MultiFileXAxis(data, opts, sortedX)>>
                         \o [i \in DOMAIN groups |->
                               ColumnData(groups[i].rows, columnName)]]
    ELSE [title |-> columnName,
          xLabel |-> XLabel(opts),
          size |-> MaxYAxisWidth(data),
          series |-> <<[label |-> columnName, stroke |-> SingleFileStroke(opts)]>>,
          data |-> <<SingleFileXAxis(data, opts), ColumnData(data, columnName)>>]

(* The columns that get a subplot: the x-axis column is skipped *)
PlottedColumns(data, opts) ==
    SelectSeq(ColumnNames(data),
              LAMBDA columnName :
                ~(columnName = opts.xAxisColumn /\ opts.xAxisColumn # "__index__"))

(* The option values put in the x-axis dropdown *)
XAxisOptions(data) ==
    (IF HasOriginColumn(data) THEN <<"filename_index">> ELSE <<>>)
      \o <<"__index__">> \o ColumnNames(data)

----------------------------------------------------------------------------
(* The handlers *)

(* function renderTable(data) *)
renderTable(data) ==
    IF Len(data) = 0
    THEN /\ tableContainer' = [tableContainer EXCEPT !.html = "No data to display"]
         /\ UNCHANGED <<plotContainer, plotButtonText>>
    ELSE /\ tableContainer' = [display |-> "block", html |-> "dataTable"]
         /\ plotContainer' = [plotContainer EXCEPT !.display = "none"]
         /\ plotButtonText' = "Plot Data"

(* resizeHandler = () => { ... }: a new closure with its own resizeTimeout; *)
(* it is named by the least number that no pending timer belongs to        *)
NewClosure == CHOOSE c \in 1..(Cardinality(timers) + 1) :
                 /\ \A t \in timers : t.owner # c
                 /\ \A d \in 1..(c - 1) : \E t \in timers : t.owner = d

(* function plotTable(data), reading the plot options opts.  Every subplot *)
(* sorts the same allXValues; the engine sorts equal inputs alike, so one  *)
(* outcome sortedX serves all subplots of a call.                          *)
plotTable(data, opts) ==
    IF Len(data) = 0
    THEN /\ plotContainer' = [plotContainer EXCEPT !.html = "No data to plot"]
         /\ plotStatus' = "nodata"
         /\ UNCHANGED <<tableContainer, plotButtonText, xAxisSelect,
                        currentPlots, dataGroups, fileColorMap, resizeHandler>>
    ELSE LET groups == BuildDataGroups(data)
         IN  /\ tableContainer' = [tableContainer EXCEPT !.display = "none"]
             /\ plotButtonText' = "Show Table"
             /\ dataGroups' = groups
             /\ IF groups.threw
                THEN \* a TypeError leaves plotTable before the dropdown is filled
                     /\ plotContainer' = [display |-> "block", html |-> ""]
                     /\ plotStatus' = "threw"
                     /\ fileColorMap' = <<>>
                     /\ UNCHANGED <<xAxisSelect, currentPlots, resizeHandler>>
                ELSE \E sortedX \in SortedXChoices(data, groups.obj, opts) :
                     LET colors == BuildFileColorMap(data, groups.obj, opts)
                         columns == PlottedColumns(data, opts)
                     IN  /\ fileColorMap' = colors
                         /\ resizeHandler' = NewClosure
                         /\ xAxisSelect' = XAxisOptions(data)
                         /\ currentPlots' =
                              [i \in DOMAIN columns |->
                                 Subplot(data, groups.obj, colors, opts,
                                         columns[i], sortedX)]
                         /\ plotContainer' =
                              [display |-> "block",
                               html |-> IF Len(columns) = 0 THEN "" ELSE "subplots"]
                         /\ plotStatus' = "ok"

(* xAxisSelect.value: the option the user has selected, "" without options *)
SelectValues == IF Len(xAxisSelect) = 0 THEN {""} ELSE Range(xAxisSelect)

(* Mutant of HasResults: the handlers never ask for a query first *)
HasResults_Always(results) == TRUE

(* Mutant of HasResults: an empty array counts as no results *)
HasResults_EmptyIsFalsy(results) == results.set /\ Len(results.rows) > 0

(* !lastQueryResults is false: null is falsy, every array is truthy *)
HasResults(results) == results.set

(* Mutant of exportToCSV: an empty array is exported as an empty text *)
exportToCSV_EmptyFile(data) ==
    /\ download' = [made |-> TRUE,
                    text |-> IF Len(data) = 0 THEN <<>> ELSE CsvContent(data)]
    /\ UNCHANGED lastAlert

(* function exportToCSV(data), called with an array *)
exportToCSV(data) ==
    IF Len(data) = 0
    THEN /\ lastAlert' = "No data to export"
         /\ UNCHANGED download
    ELSE /\ download' = [made |-> TRUE, text |-> CsvContent(data)]
         /\ UNCHANGED lastAlert

(* exportButton click handler *)
ExportButtonClick ==
    /\ UNCHANGED <<lastQueryResults, plotOptions, view, session, resizing>>
    /\ IF ~HasResults(lastQueryResults)
       THEN /\ lastAlert' = "No query results to export. Please run a query first."
            /\ UNCHANGED download
       ELSE exportToCSV(lastQueryResults.rows)

(* plotButton click handler *)
PlotButtonClick ==
    /\ UNCHANGED <<lastQueryResults, plotOptions, download, session, resizing>>
    /\ IF ~HasResults(lastQueryResults)
       THEN /\ lastAlert' = "No query results to plot. Please run a query first."
            /\ UNCHANGED view
       ELSE /\ UNCHANGED lastAlert
            /\ IF plotButtonText = "Plot Data"
               THEN plotTable(lastQueryResults.rows, plotOptions)
               ELSE /\ renderTable(lastQueryResults.rows)
                    /\ UNCHANGED <<xAxisSelect, currentPlots, dataGroups,
                                   fileColorMap, plotStatus, resizeHandler>>

(* applyOptionsButton click handler *)
ApplyOptionsClick ==
    \E value \in SelectValues :
        /\ plotOptions' = [plotOptions EXCEPT !.xAxisColumn = value]
        /\ UNCHANGED <<lastQueryResults, lastAlert, download, session, resizing>>
        /\ IF HasResults(lastQueryResults)
           THEN plotTable(lastQueryResults.rows, plotOptions')
           ELSE UNCHANGED view

----------------------------------------------------------------------------
(* Resizing: the listener that plotTable puts on window, its timers and    *)
(* the passing of time in steps of TickMs.                                 *)

RESIZE_DEBOUNCE_MS == 150

TickMs == 50

MaxTimers == 2

(* clearTimeout(resizeTimeout); resizeTimeout = setTimeout(..., 150): the  *)
(* closure's own timer is replaced, the timers of other closures stay      *)
SetResizeTimeout(pending, closure) ==
    {t \in pending : t.owner # closure}
        \cup {[owner |-> closure, remaining |-> RESIZE_DEBOUNCE_MS]}

(* A resize event on window: the registered listener runs *)
WindowResize ==
    /\ resizeHandler # 0
    /\ timers' = SetResizeTimeout(timers, resizeHandler)
    /\ Cardinality(timers') <= MaxTimers
    /\ passesSinceResize' = 0
    /\ UNCHANGED <<lastQueryResults, plotOptions, view, lastAlert, download,
                   session>>

(* Up to TickMs go by, as long as no pending timer is due *)
Tick ==
    /\ timers # {}
    /\ \A t \in timers : t.remaining > 0
    /\ timers' = {[t EXCEPT !.remaining = IF @ > TickMs THEN @ - TickMs ELSE 0] :
                    t \in timers}
    /\ UNCHANGED <<lastQueryResults, plotOptions, view, lastAlert, download,
                   session, passesSinceResize>>

(* A timer is due: its callback makes one setSize pass over currentPlots *)
ResizeTimeoutFires(t) ==
    /\ t \in timers
    /\ t.remaining = 0
    /\ timers' = timers \ {t}
    /\ passesSinceResize' = passesSinceResize + 1
    /\ UNCHANGED <<lastQueryResults, plotOptions, view, lastAlert, download,
                   session>>

----------------------------------------------------------------------------
(* Loading: the load button, and loadParquetFile as it runs from one await *)
(* to the next.  A text is a sequence of pieces, each a white-space        *)
(* character or a run of other characters.                                 *)

MaxLoads == 2

(* export const DEFAULT_QUERY *)
DEFAULT_QUERY ==
    <<"SELECT", "\n", " ", " ", "*,", "\n", " ", " ",
      "row_number() OVER (PARTITION BY filename) AS filename_index", "\n",
      "FROM", " ", "\n", "\t",
      "read_parquet('*.parquet', union_by_name=true, filename=true)", "\n",
      "ORDER BY", " ", "\n", "\t", "filename, filename_index">>

(* Mutant of Trim: the text is taken as typed *)
Trim_NotTrimmed(text) == text

(* text.trim() *)
Trim(text) == TrimRight(TrimLeft(text))

(* function updateProgress(percent, message) *)
updateProgress(percent) == [display |-> "block", percent |-> percent]

(* Mutant of hideProgress: the bar is left as it is *)
hideProgress_LeftShown(bar) == bar

(* function hideProgress() *)
hideProgress(bar) == [bar EXCEPT !.display = "none"]

(* Math.floor((i / totalFiles) * 50), i counted from 0 *)
ProgressPercent(i, totalFiles) == (i * 50) \div totalFiles

(* fileInput change handler: the user has picked files (none on cancel) *)
FileInputChange(files) ==
    /\ fileInput' = files
    /\ queryText' = IF Len(files) > 0 THEN DEFAULT_QUERY ELSE queryText
    /\ UNCHANGED <<lastQueryResults, plotOptions, view, lastAlert, download,
                   progress, loadedFiles, registeredFiles, queriesIssued,
                   loads, loadsStarted,
                   storedBy, succeeded, resizing>>

(* The user edits the query text in the editor *)
EditQuery(text) ==
    /\ queryText' = text
    /\ UNCHANGED <<lastQueryResults, plotOptions, view, lastAlert, download,
                   progress, fileInput, loadedFiles, registeredFiles,
                   queriesIssued, loads, loadsStarted,
                   storedBy, succeeded, resizing>>

(* loadButton click handler, up to the first await of loadParquetFile *)
LoadButtonClick ==
    LET files == fileInput
        query == Trim(queryText)
    IN  /\ UNCHANGED <<lastQueryResults, plotOptions, view, download, fileInput,
                       queryText, loadedFiles, registeredFiles, queriesIssued,
                   storedBy, succeeded, resizing>>
        /\ IF Len(files) = 0
           THEN /\ lastAlert' = "Please select a parquet file first"
                /\ UNCHANGED <<progress, loads, loadsStarted>>
           ELSE IF Len(query) = 0
           THEN /\ lastAlert' = "Please enter a query"
                /\ UNCHANGED <<progress, loads, loadsStarted>>
           ELSE /\ loadsStarted < MaxLoads
                /\ loadsStarted' = loadsStarted + 1
                /\ progress' = updateProgress(ProgressPercent(0, Len(files)))
                /\ loads' = loads \cup
                              {[id |-> loadsStarted + 1, files |-> files,
                                query |-> query, i |-> 1, pc |-> "arrayBuffer"]}
                /\ UNCHANGED lastAlert

(* loadParquetFile: await file.arrayBuffer() resolves; registerFileBuffer   *)
(* is called                                                               *)
ArrayBufferResolves(l) ==
    /\ l.pc = "arrayBuffer"
    /\ loads' = (loads \ {l}) \cup {[l EXCEPT !.pc = "registerFileBuffer"]}
    /\ UNCHANGED <<lastQueryResults, plotOptions, view, lastAlert, download,
                   progress, fileInput, queryText, loadedFiles, registeredFiles,
                   queriesIssued, loadsStarted,
                   storedBy, succeeded, resizing>>

(* loadParquetFile: await db.registerFileBuffer(...) resolves; the file is *)
(* tracked, and the loop goes to the next file or to conn.query            *)
RegisterFileBufferResolves(l) ==
    LET name == l.files[l.i]
        last == l.i = Len(l.files)
    IN  /\ l.pc = "registerFileBuffer"
        /\ registeredFiles' = registeredFiles \cup {name}
        /\ loadedFiles' = IF name \in Range(loadedFiles) THEN loadedFiles
                          ELSE Append(loadedFiles, name)
        /\ progress' = IF last THEN updateProgress(60)
                       ELSE updateProgress(ProgressPercent(l.i, Len(l.files)))
        /\ queriesIssued' = IF last THEN queriesIssued + 1 ELSE queriesIssued
        /\ loads' = (loads \ {l}) \cup
                      {IF last THEN [l EXCEPT !.pc = "query"]
                       ELSE [l EXCEPT !.i = @ + 1, !.pc = "arrayBuffer"]}
        /\ UNCHANGED <<lastQueryResults, plotOptions, view, lastAlert, download,
                       fileInput, queryText, loadsStarted,
                   storedBy, succeeded, resizing>>

(* loadParquetFile: await conn.query(query) resolves with rows; they are   *)
(* converted, stored and shown                                             *)
QueryResolves(l, rows) ==
    /\ l.pc = "query"
    /\ lastQueryResults' = Results(rows)
    /\ storedBy' = l.id
    /\ succeeded' = succeeded \cup {l.id}
    /\ progress' = hideProgress(updateProgress(100))
    /\ renderTable(rows)
    /\ loads' = loads \ {l}
    /\ UNCHANGED <<plotOptions, xAxisSelect, currentPlots, dataGroups,
                   fileColorMap, plotStatus, lastAlert, download, fileInput,
                   queryText, loadedFiles, registeredFiles, queriesIssued,
                   loadsStarted,
                   resizeHandler, resizing>>

(* Mutant of LoadFails: the rows are stored before they are converted, so *)
(* a failed conversion leaves an empty result behind                       *)
LoadFails_StoresFirst(l, converting) ==
    /\ converting => l.pc = "query"
    /\ lastQueryResults' = IF converting THEN Results(<<>>) ELSE lastQueryResults
    /\ progress' = hideProgress(IF converting THEN updateProgress(90) ELSE progress)
    /\ lastAlert' = "Error loading parquet file: "
    /\ loads' = loads \ {l}
    /\ UNCHANGED <<plotOptions, view, download, fileInput, queryText,
                   loadedFiles, registeredFiles, queriesIssued, loadsStarted,
                   storedBy, succeeded, resizing>>

(* loadParquetFile: the awaited promise rejects, or (converting) the query *)
(* resolved and result.toArray().map(...) throws; the catch block runs     *)
LoadFails(l, converting) ==
    /\ converting => l.pc = "query"
    /\ progress' = hideProgress(IF converting THEN updateProgress(90) ELSE progress)
    /\ lastAlert' = "Error loading parquet file: "
    /\ loads' = loads \ {l}
    /\ UNCHANGED <<lastQueryResults, plotOptions, view, download, fileInput,
                   queryText, loadedFiles, registeredFiles, queriesIssued,
                   loadsStarted,
                   storedBy, succeeded, resizing>>

----------------------------------------------------------------------------
(* Query results of the model: up to MaxRows rows, either of a multi-file  *)
(* query (filename, filename_index, a, b) or of a single-file one (a, b).  *)

ConstructorName == <<"c", "o", "n", "s", "t", "r", "u", "c", "t", "o", "r">>

(* Origins: a plain name, two array-index names, an Object.prototype name *)
Origins == { <<"f">>, <<"2">>, <<"1", "0">>, ConstructorName }

PlainPayload == [filename_index |-> Num(1), a |-> Num(1), b |-> Num(2)]
NullYPayload == [filename_index |-> Num(2), a |-> Num(3), b |-> Null]
NullXPayload == [filename_index |-> Null, a |-> Null, b |-> Num(5)]
TextPayload == [filename_index |-> Num(3), a |-> Str(<<"x">>), b |-> Str(<<"7">>)]

Payloads == { PlainPayload, NullYPayload, NullXPayload, TextPayload }

MultiFileRow(o, p) ==
    [filename |-> Str(o), filename_index |-> p.filename_index, a |-> p.a, b |-> p.b]

(* Every origin with the plain payload; the other payloads with f or g *)
MultiFileRows ==
    { MultiFileRow(o, PlainPayload) : o \in Origins }
      \cup { MultiFileRow(<<"f">>, NullYPayload),
             MultiFileRow(<<"f">>, TextPayload),
             MultiFileRow(<<"g">>, NullXPayload) }

SingleFileRows == { [a |-> p.a, b |-> p.b] : p \in Payloads }

SeqsUpTo(S, n) == UNION { [1..k -> S] : k \in 0..n }

ResultSets == SeqsUpTo(MultiFileRows, MaxRows) \cup SeqsUpTo(SingleFileRows, MaxRows)

(* The page after construction (wasSet is false), or with the table of a   *)
(* first query already run on one selected file (wasSet is true).          *)
(* The page's markup is not part of the script: the containers start as    *)
(* the script's own toggle expects them (table shown, plots hidden, the    *)
(* button reading "Plot Data"), the dropdown starts without options, the   *)
(* progress bar hidden and the editor empty.                               *)
InitView(rows, wasSet) ==
    /\ lastQueryResults = (IF wasSet THEN Results(rows) ELSE NoResults)
    /\ plotOptions = [xAxisColumn |-> "filename_index", lineColor |-> "#4a90e2"]
    /\ tableContainer =
         [display |-> "block",
          html |-> IF ~wasSet THEN ""
                   ELSE IF Len(rows) = 0 THEN "No data to display" ELSE "dataTable"]
    /\ plotContainer = [display |-> "none", html |-> ""]
    /\ plotButtonText = "Plot Data"
    /\ xAxisSelect = <<>>
    /\ currentPlots = <<>>
    /\ dataGroups = [threw |-> FALSE, obj |-> <<>>]
    /\ fileColorMap = <<>>
    /\ plotStatus = "none"
    /\ lastAlert = ""
    /\ download = [made |-> FALSE, text |-> <<>>]
    /\ progress = [display |-> "none", percent |-> IF wasSet THEN 100 ELSE 0]
    /\ fileInput = (IF wasSet THEN <<"f.parquet">> ELSE <<>>)
    /\ queryText = (IF wasSet THEN DEFAULT_QUERY ELSE <<>>)
    /\ loadedFiles = (IF wasSet THEN <<"f.parquet">> ELSE <<>>)
    /\ registeredFiles = (IF wasSet THEN {"f.parquet"} ELSE {})
    /\ queriesIssued = (IF wasSet THEN 1 ELSE 0)
    /\ loads = {}
    /\ loadsStarted = (IF wasSet THEN 1 ELSE 0)
    /\ storedBy = (IF wasSet THEN 1 ELSE 0)
    /\ succeeded = (IF wasSet THEN {1} ELSE {})
    /\ resizeHandler = 0
    /\ timers = {}
    /\ passesSinceResize = 0

InitPlot ==
    \/ InitView(<<>>, FALSE)
    \/ \E rows \in ResultSets : InitView(rows, TRUE)

NextPlot == PlotButtonClick \/ ApplyOptionsClick

SpecPlot == InitPlot /\ [][NextPlot]_vars

----------------------------------------------------------------------------
(* Query results with many files: the first MaxFiles names of a rotation   *)
(* of FileNames, one row each (past Len(FileNames) rows the names repeat). *)

MaxFiles == 12

FileNames ==
    << <<"f">>, <<"g">>, <<"h">>, <<"i">>, <<"j">>, <<"k">>, <<"l">>,
       <<"m">>, <<"n">>, <<"2">>, <<"1", "0">>, <<"p">> >>

ManyFileRows(n, r, p) ==
    [i \in 1..n |->
        MultiFileRow(FileNames[((i + r - 1) % Len(FileNames)) + 1], p)]

InitColor ==
    \E n \in 1..MaxFiles, r \in 0..(Len(FileNames) - 1), p \in Payloads :
        InitView(ManyFileRows(n, r, p), TRUE)

SpecColor == InitColor /\ [][NextPlot]_vars

----------------------------------------------------------------------------
(* Loading: from the page after construction, files are picked, the query *)
(* is edited and loads run step by step, next to export and plot clicks.   *)
(* What a query returns is the database's choice among QueryResults.  The  *)
(* apply-options handler acts on stored results in SpecPlot.               *)

FileSelections == { <<>>, <<"f.parquet", "g.parquet">> }

QueryTexts == { <<" ", "\n">>, DEFAULT_QUERY }

QueryResults ==
    { <<>>,
      <<[a |-> Num(1), b |-> Null]>>,
      <<MultiFileRow(<<"f">>, PlainPayload), MultiFileRow(<<"g">>, NullXPayload)>> }

InitLoad == InitView(<<>>, FALSE)

NextLoad ==
    \/ \E files \in FileSelections : FileInputChange(files)
    \/ \E text \in QueryTexts : EditQuery(text)
    \/ LoadButtonClick
    \/ \E l \in loads : ArrayBufferResolves(l)
    \/ \E l \in loads : RegisterFileBufferResolves(l)
    \/ \E l \in loads : \E rows \in QueryResults : QueryResolves(l, rows)
    \/ \E l \in loads : \E converting \in BOOLEAN : LoadFails(l, converting)
    \/ ExportButtonClick
    \/ PlotButtonClick

SpecLoad == InitLoad /\ [][NextLoad]_vars

----------------------------------------------------------------------------
(* Resizing the window next to the plot and apply-options clicks, on a     *)
(* stored single-file or multi-file result.                                *)

ResizeResultSets ==
    { <<[a |-> Num(1), b |-> Null]>>,
      <<MultiFileRow(<<"f">>, PlainPayload), MultiFileRow(<<"g">>, NullXPayload)>> }

InitResize == \E rows \in ResizeResultSets : InitView(rows, TRUE)

NextResize ==
    \/ PlotButtonClick
    \/ ApplyOptionsClick
    \/ WindowResize
    \/ Tick
    \/ \E t \in timers : ResizeTimeoutFires(t)

SpecResize == InitResize /\ [][NextResize]_vars

----------------------------------------------------------------------------
(* Query results for the CSV export: cells whose text needs quoting, and a *)
(* column whose name holds a comma (SELECT ... AS "p,q").                  *)

MaxCsvRows == 2

CsvCells ==
    { Num(12), Num(0 - 3), Null, Bool(TRUE), Str(<<>>), Str(<<"x", " ", "y">>),
      Str(<<"a", ",", "b">>), Str(<<"\"", "x", "\"">>), Str(<<"l", "\n", "m">>) }

CsvRows ==
    { [a |-> c, b |-> d] : c \in CsvCells, d \in {Num(12), Null, Str(<<"a", ",", "b">>)} }

CsvRowsCommaColumn ==
    { ("a" :> c) @@ ("p,q" :> d) : c \in {Num(12), Str(<<"x", " ", "y">>)},
                                    d \in {Num(1), Null} }

CsvResultSets == SeqsUpTo(CsvRows, MaxCsvRows) \cup SeqsUpTo(CsvRowsCommaColumn, MaxCsvRows)

InitCsv ==
    \/ InitView(<<>>, FALSE)
    \/ \E rows \in CsvResultSets : InitView(rows, TRUE)

NextCsv == ExportButtonClick

SpecCsv == InitCsv /\ [][NextCsv]_vars

----------------------------------------------------------------------------
(* Query results for the y-axis width: short, long and negative numbers,   *)
(* null and text, in single-file and in multi-file results.                *)

MaxWidthRows == 2

WidthCells == { Num(5), Num(0 - 123456), Num(1234567), Null, Str(<<"x">>) }

WidthRows ==
    { [a |-> c, b |-> d] : c \in WidthCells, d \in {Num(5), Null} }

WidthRowsOfFile ==
    { [filename |-> Str(<<"f">>), filename_index |-> Num(1), a |-> r.a, b |-> r.b] :
        r \in WidthRows }

WidthResultSets ==
    SeqsUpTo(WidthRows, MaxWidthRows) \cup SeqsUpTo(WidthRowsOfFile, MaxWidthRows)

InitWidth == \E rows \in WidthResultSets : InitView(rows, TRUE)

SpecWidth == InitWidth /\ [][NextPlot]_vars

----------------------------------------------------------------------------
(* Vocabulary of the properties *)

Rows == lastQueryResults.rows

XAxisColumn == plotOptions.xAxisColumn

Nullish(cell) == cell.t \in {"null", "undefined"}

(* A plotTable call went through its grouping and built the plots *)
Rendered == plotStatus = "ok"

MultiFileRendered == Rendered /\ "filename" \in DOMAIN Rows[1]

SingleFileRendered == Rendered /\ "filename" \notin DOMAIN Rows[1]

(* A plotTable call got past its empty-data check *)
RenderAttempted == plotStatus \in {"ok", "threw"}

(* The origin values in the order of their first appearance *)
RECURSIVE FirstSeenOrigins(_)
FirstSeenOrigins(rows) ==
    IF Len(rows) = 0 THEN <<>>
    ELSE LET front == FirstSeenOrigins(SubSeq(rows, 1, Len(rows) - 1))
             o == rows[Len(rows)].filename.s
         IN  IF \E i \in DOMAIN front : front[i] = o THEN front ELSE Append(front, o)

(* The rows of one origin, in ResultSet order *)
RowsOfOrigin(rows, o) == SelectSeq(rows, LAMBDA row : row.filename.s = o)

SeriesLabels(plot) == [i \in DOMAIN plot.series |-> plot.series[i].label]

(* The rows behind the g-th series of a plot *)
SeriesRows(plot, g) ==
    IF "filename" \in DOMAIN Rows[1]
    THEN RowsOfOrigin(Rows, plot.series[g].label)
    ELSE Rows

(* The data columns: the first row's columns but filename, filename_index *)
DataColumns ==
    SelectSeq(ColumnOrder,
              LAMBDA c : c \in DOMAIN Rows[1] /\ c \notin {"filename", "filename_index"})

----------------------------------------------------------------------------
(* C1: with an origin column, the order of the groups used for colouring   *)
(* and for emitting series is the order in which each origin value first   *)
(* appears in the ResultSet, for every origin string, and the rows of each *)
(* group keep their ResultSet order.                                       *)
C1_GroupOrderIsFirstAppearance ==
    MultiFileRendered =>
        /\ ObjectKeys(dataGroups.obj) = FirstSeenOrigins(Rows)
        /\ \A p \in DOMAIN currentPlots :
              SeriesLabels(currentPlots[p]) = FirstSeenOrigins(Rows)
        /\ \A g \in DOMAIN dataGroups.obj :
              dataGroups.obj[g].rows = RowsOfOrigin(Rows, dataGroups.obj[g].key)

(* C2: grouping is a lossless regrouping: once plotTable has grouped a     *)
(* ResultSet with an origin column, every origin has exactly one group and *)
(* that group holds exactly the rows of the origin, each once, in order.   *)
C2_LosslessRegrouping ==
    (RenderAttempted /\ "filename" \in DOMAIN Rows[1]) =>
        /\ \A i \in DOMAIN Rows :
              Cardinality({g \in DOMAIN dataGroups.obj :
                             dataGroups.obj[g].key = Rows[i].filename.s}) = 1
        /\ \A g \in DOMAIN dataGroups.obj :
              dataGroups.obj[g].rows = RowsOfOrigin(Rows, dataGroups.obj[g].key)

(* C3: in multi-file mode with the filename_index axis, the x value at the *)
(* position of a group's j-th y value is the filename_index of the group's *)
(* j-th row (a null index may show as null or as 0).  Stated for results   *)
(* whose groups come out in first-appearance order.                        *)
C3_FileIndexPairedPerGroup ==
    (/\ MultiFileRendered
     /\ XAxisColumn = "filename_index"
     /\ ObjectKeys(dataGroups.obj) = FirstSeenOrigins(Rows)) =>
        \A p \in DOMAIN currentPlots :
            \A g \in DOMAIN currentPlots[p].series :
                LET x == currentPlots[p].data[1]
                    y == currentPlots[p].data[g + 1]
                    rows == SeriesRows(currentPlots[p], g)
                IN  \A j \in DOMAIN y :
                        /\ j \in DOMAIN x
                        /\ j \in DOMAIN rows
                        /\ IF Nullish(rows[j].filename_index)
                           THEN x[j] \in {Null, Num(0)}
                           ELSE x[j] = rows[j].filename_index

(* C4: in every x-axis mode, single-file and multi-file, the x and the y   *)
(* sequence of a group are as long as the group has rows, and a row whose  *)
(* x-axis column or y column is null or undefined has null in that slot.   *)
C4_AxisNullSafety ==
    Rendered =>
        \A p \in DOMAIN currentPlots :
            \A g \in DOMAIN currentPlots[p].series :
                LET x == currentPlots[p].data[1]
                    y == currentPlots[p].data[g + 1]
                    rows == SeriesRows(currentPlots[p], g)
                IN  /\ Len(x) = Len(rows)
                    /\ Len(y) = Len(rows)
                    /\ \A j \in DOMAIN rows :
                          /\ Nullish(Get(rows[j], currentPlots[p].title))
                                => y[j] = Null
                          /\ (XAxisColumn # "__index__"
                                /\ Nullish(Get(rows[j], XAxisColumn)))
                                => x[j] = Null

(* C5: in multi-file mode with a data column as x axis, the x sequence of  *)
(* every subplot is the duplicate-free union of the cast x values of all   *)
(* rows, with its numbers in ascending order, for every input.             *)
C5_SharedXDomainSortedUnion ==
    (MultiFileRendered /\ XAxisColumn \in Range(DataColumns)) =>
        \A p \in DOMAIN currentPlots :
            LET x == currentPlots[p].data[1]
            IN  /\ Range(x) = {NullOrNumber(Rows[i][XAxisColumn]) : i \in DOMAIN Rows}
                /\ \A i, j \in DOMAIN x : i < j => x[i] # x[j]
                /\ \A i, j \in DOMAIN x :
                      (i < j /\ x[i].t = "num" /\ x[j].t = "num") => x[i].n < x[j].n

(* C6: with the "__index__" axis the x sequence of every subplot is        *)
(* 0, 1, ..., N-1 for the N rows of the ResultSet; in single-file mode     *)
(* every data column has its subplot, whose series pairs i with the cast   *)
(* value of the column in row i.                                           *)
C6_GlobalIndexAxis ==
    (Rendered /\ XAxisColumn = "__index__") =>
        /\ \A p \in DOMAIN currentPlots :
              currentPlots[p].data[1] = [i \in 1..Len(Rows) |-> Num(i - 1)]
        /\ "filename" \notin DOMAIN Rows[1] =>
              /\ Len(currentPlots) = Len(DataColumns)
              /\ \A p \in DOMAIN currentPlots :
                    /\ currentPlots[p].title = DataColumns[p]
                    /\ Len(currentPlots[p].data) = 2
                    /\ currentPlots[p].data[2] =
                         [i \in 1..Len(Rows) |->
                            IF Nullish(Rows[i][DataColumns[p]]) THEN Null
                            ELSE Number(Rows[i][DataColumns[p]])]

C6_Witness ==
    /\ SingleFileRendered
    /\ XAxisColumn = "__index__"
    /\ Len(Rows) >= 2
    /\ Len(currentPlots) = 2
    /\ plotContainer.display = "block"

(* C7: in multi-file mode each group's y sequence has one entry per row of *)
(* the group, in the group's row order, holding the cast value of the      *)
(* plotted column; it is not padded to the length of the x sequence.       *)
C7_GroupYSequences ==
    MultiFileRendered =>
        \A p \in DOMAIN currentPlots :
            /\ Len(currentPlots[p].data) = Len(currentPlots[p].series) + 1
            /\ \A g \in DOMAIN currentPlots[p].series :
                  LET rows == SeriesRows(currentPlots[p], g)
                  IN  currentPlots[p].data[g + 1] =
                        [j \in 1..Len(rows) |->
                           IF Nullish(rows[j][currentPlots[p].title]) THEN Null
                           ELSE Number(rows[j][currentPlots[p].title])]

C7_Witness ==
    /\ MultiFileRendered
    /\ \E p \in DOMAIN currentPlots :
          /\ Len(currentPlots[p].series) = 2
          /\ Len(currentPlots[p].data[2]) # Len(currentPlots[p].data[3])
          /\ Len(currentPlots[p].data[3]) < Len(currentPlots[p].data[1])
          /\ Null \in Range(currentPlots[p].data[2])

(* C8: a plotTable call on a non-empty ResultSet produces one subplot per  *)
(* data column, in column order, but for the x-axis column when that is    *)
(* not "__index__"; a multi-file subplot has one series per file group, in *)
(* group order, a single-file subplot has one series.                      *)
C8_OneSubplotPerDataColumn ==
    RenderAttempted =>
        LET expected ==
              SelectSeq(DataColumns,
                        LAMBDA c : XAxisColumn = "__index__" \/ c # XAxisColumn)
        IN  /\ [p \in DOMAIN currentPlots |-> currentPlots[p].title] = expected
            /\ \A p \in DOMAIN currentPlots :
                  IF "filename" \in DOMAIN Rows[1]
                  THEN /\ SeriesLabels(currentPlots[p]) = ObjectKeys(dataGroups.obj)
                       /\ Range(SeriesLabels(currentPlots[p]))
                            = {Rows[i].filename.s : i \in DOMAIN Rows}
                  ELSE Len(currentPlots[p].series) = 1

(* C9: in multi-file mode the i-th origin in group order, counted from 0,  *)
(* is drawn and mapped with palette[i mod 10], for any number of origins,  *)
(* whatever the data values.                                               *)
C9_CyclicPalette ==
    MultiFileRendered =>
        /\ DOMAIN fileColorMap = {Rows[i].filename.s : i \in DOMAIN Rows}
        /\ \A p \in DOMAIN currentPlots :
              \A i \in DOMAIN currentPlots[p].series :
                  /\ currentPlots[p].series[i].stroke = COLOR_PALETTE[((i - 1) % 10) + 1]
                  /\ fileColorMap[currentPlots[p].series[i].label]
                       = COLOR_PALETTE[((i - 1) % 10) + 1]

C9_Witness ==
    /\ MultiFileRendered
    /\ \E p \in DOMAIN currentPlots :
          /\ Len(currentPlots[p].series) > 10
          /\ currentPlots[p].series[11].stroke = "#4a90e2"

(* C10: when the first row has no origin column, plotTable makes exactly   *)
(* one group, keyed "default", holding all rows in their order.            *)
C10_SingleDefaultGroup ==
    SingleFileRendered =>
        /\ ~dataGroups.threw
        /\ dataGroups.obj = <<[key |-> <<"d", "e", "f", "a", "u", "l", "t">>,
                               rows |-> Rows]>>

C10_Witness ==
    /\ SingleFileRendered
    /\ Len(Rows) >= 2
    /\ Len(dataGroups.obj) = 1

(* C11: in single-file mode (no origin column) the single series of every *)
(* subplot is drawn in the current plotOptions.lineColor, and so is the    *)
(* colour kept for the single group; no palette index is used.             *)
C11_SingleFileLineColor ==
    SingleFileRendered =>
        /\ fileColorMap = [k \in {<<"d", "e", "f", "a", "u", "l", "t">>} |->
                             plotOptions.lineColor]
        /\ \A p \in DOMAIN currentPlots :
              /\ Len(currentPlots[p].series) = 1
              /\ currentPlots[p].series[1].stroke = plotOptions.lineColor

C11_Witness ==
    /\ SingleFileRendered
    /\ Len(currentPlots) = 2
    /\ currentPlots[2].series[1].stroke = "#4a90e2"
    /\ XAxisColumn = "__index__"

(* The text of a cell: empty for null and undefined, else its string form *)
CellText(cell) == IF Nullish(cell) THEN <<>> ELSE StringOf(cell)

(* The header names of the ResultSet, as characters *)
HeaderNames ==
    LET cols == SelectSeq(ColumnOrder, LAMBDA c : c \in DOMAIN Rows[1])
    IN  [h \in DOMAIN cols |-> ColumnChars(cols[h])]

(* The cell texts of row i, one per header column *)
RowTexts(i) ==
    LET cols == SelectSeq(ColumnOrder, LAMBDA c : c \in DOMAIN Rows[1])
    IN  [h \in DOMAIN cols |-> CellText(Get(Rows[i], cols[h]))]

RECURSIVE Flatten(_)
Flatten(parts) ==
    IF Len(parts) = 0 THEN <<>> ELSE parts[1] \o Flatten(Tail(parts))

(* A field as the CSV rules write it: quoted, with its quotes doubled,     *)
(* when it holds a comma, a double quote or a newline                      *)
QuotedWhenNeeded(text) ==
    IF \E i \in DOMAIN text : text[i] \in {",", "\"", "\n"}
    THEN <<"\"">>
           \o Flatten([i \in DOMAIN text |->
                          IF text[i] = "\"" THEN <<"\"", "\"">> ELSE <<text[i]>>])
           \o <<"\"">>
    ELSE text

(* Fields separated by commas and ended by a newline *)
LineOf(fields) ==
    Flatten([k \in 1..(2 * Len(fields)) |->
               IF k % 2 = 1 THEN fields[(k + 1) \div 2]
               ELSE IF k = 2 * Len(fields) THEN <<"\n">> ELSE <<",">>])

(* C12: the CSV text of a non-empty row sequence is the line of the first  *)
(* row's column names, comma-joined and unescaped, then one line per row   *)
(* in order, one field per header column, null as the empty field, other   *)
(* values as their string form, quoted when needed; every line ends with   *)
(* a newline.                                                              *)
C12_CsvSerialisation ==
    download.made =>
        download.text =
            LineOf(HeaderNames)
              \o Flatten([i \in DOMAIN Rows |->
                             LineOf([h \in DOMAIN HeaderNames |->
                                       QuotedWhenNeeded(RowTexts(i)[h])])])

C12_Witness ==
    /\ download.made
    /\ Len(Rows) = 2
    /\ Rows[1].a = Str(<<"\"", "x", "\"">>)
    /\ Rows[1].b = Str(<<"a", ",", "b">>)
    /\ Rows[2].a = Str(<<"l", "\n", "m">>)
    /\ Rows[2].b = Null
    /\ download.text[Len(download.text)] = "\n"

(* A reader of CSV text after RFC 4180, with the newline as line break:    *)
(* state "start" at the start of a field, "in" inside a quoted field,      *)
(* "out" elsewhere.                                                        *)
RECURSIVE ReadCsv(_, _, _, _, _, _)
ReadCsv(text, i, state, field, record, records) ==
    IF i > Len(text)
    THEN IF state = "start" /\ record = <<>> THEN records
         ELSE Append(records, Append(record, field))
    ELSE IF state = "in"
    THEN IF text[i] # "\""
         THEN ReadCsv(text, i + 1, "in", Append(field, text[i]), record, records)
         ELSE IF i < Len(text) /\ text[i + 1] = "\""
         THEN ReadCsv(text, i + 2, "in", Append(field, "\""), record, records)
         ELSE ReadCsv(text, i + 1, "out", field, record, records)
    ELSE IF text[i] = ","
    THEN ReadCsv(text, i + 1, "start", <<>>, Append(record, field), records)
    ELSE IF text[i] = "\n"
    THEN ReadCsv(text, i + 1, "start", <<>>, <<>>,
                 Append(records, Append(record, field)))
    ELSE IF text[i] = "\"" /\ state = "start"
    THEN ReadCsv(text, i + 1, "in", field, record, records)
    ELSE ReadCsv(text, i + 1, "out", Append(field, text[i]), record, records)

ParseCsv(text) == ReadCsv(text, 1, "start", <<>>, <<>>, <<>>)

(* C13: reading the exported text of a non-empty ResultSet with a standard *)
(* CSV reader gives back the header names and, row by row, the cell texts  *)
(* (null as the empty string, numbers as their string form), for every     *)
(* ResultSet.                                                              *)
C13_CsvRoundTrip ==
    download.made =>
        ParseCsv(download.text)
            = <<HeaderNames>> \o [i \in DOMAIN Rows |-> RowTexts(i)]

(* The number of characters of the decimal form of an integer *)
RECURSIVE DecimalLength(_)
DecimalLength(v) ==
    IF v < 0 THEN 1 + DecimalLength(0 - v)
    ELSE IF v < 10 THEN 1
    ELSE 1 + DecimalLength(v \div 10)

(* The numeric (non-null, non-NaN) values of a column of the ResultSet *)
NumericValues(c) ==
    {Number(Get(Rows[i], c)).n :
        i \in {j \in DOMAIN Rows : /\ ~Nullish(Get(Rows[j], c))
                                  /\ Number(Get(Rows[j], c)).t = "num"}}

(* C14: the y-axis width of every subplot of a render is the largest of 60 *)
(* and, over the data columns with at least one numeric value, the longer  *)
(* of the decimal forms of the column's minimum and maximum times 8, plus  *)
(* 20; so it is at least 60 and the same in all subplots.                  *)
C14_YAxisWidth ==
    Rendered =>
        LET widths ==
              {60} \cup
              { (LET lo == CHOOSE m \in NumericValues(c) :
                             \A o \in NumericValues(c) : m <= o
                     hi == CHOOSE m \in NumericValues(c) :
                             \A o \in NumericValues(c) : m >= o
                     longer == IF DecimalLength(lo) > DecimalLength(hi)
                               THEN DecimalLength(lo) ELSE DecimalLength(hi)
                 IN  longer * 8 + 20) :
                c \in {d \in Range(DataColumns) : NumericValues(d) # {}} }
        IN  \A p \in DOMAIN currentPlots :
                /\ currentPlots[p].size \in widths
                /\ \A w \in widths : currentPlots[p].size >= w
                /\ currentPlots[p].size >= 60
                /\ currentPlots[p].size = currentPlots[1].size

C14_Witness ==
    /\ Rendered
    /\ Len(Rows) = 2
    /\ Rows[1].a = Num(0 - 123456)
    /\ Rows[2].a = Num(5)
    /\ Rows[1].b = Null
    /\ Rows[2].b = Null
    /\ Len(currentPlots) = 2
    /\ currentPlots[2].size = 76

(* C15: a load that fails (while reading or registering a file, running   *)
(* the query or converting its result) leaves lastQueryResults as it was,  *)
(* and ends inside the load handler with a notice: the execution is over   *)
(* and nothing but the notice and the progress bar has changed.            *)
C15_FailedLoadKeepsResults ==
    [][ (\E l \in loads : \E converting \in BOOLEAN : LoadFails(l, converting))
          => /\ lastQueryResults' = lastQueryResults
             /\ lastAlert' = "Error loading parquet file: "
             /\ \E l \in loads : loads' = loads \ {l}
             /\ UNCHANGED <<plotOptions, view, download>> ]_vars

C15_Witness ==
    /\ lastAlert = "Error loading parquet file: "
    /\ loadsStarted = 2
    /\ loads = {}
    /\ lastQueryResults.set
    /\ Len(lastQueryResults.rows) = 2
    /\ progress.percent = 90

(* C16: an export or plot click while lastQueryResults is null shows a     *)
(* notice and changes nothing else: no CSV, no plot, the same view, button *)
(* text, plot options and stored result.                                   *)
C16_NoResultsNotice ==
    [][ (~lastQueryResults.set /\ (ExportButtonClick \/ PlotButtonClick))
          => /\ lastAlert' \in
                  {"No query results to export. Please run a query first.",
                   "No query results to plot. Please run a query first."}
             /\ UNCHANGED <<lastQueryResults, plotOptions, view, download, session>>
      ]_vars

C16_Witness ==
    /\ ~lastQueryResults.set
    /\ lastAlert = "No query results to plot. Please run a query first."
    /\ ~download.made
    /\ currentPlots = <<>>
    /\ plotButtonText = "Plot Data"

(* C17: a load click with no file selected, or with a query text that is   *)
(* empty or only white space, shows a notice and changes nothing else: no  *)
(* file is registered, no query is issued, no load is started.             *)
C17_RejectedLoadChangesNothing ==
    [][ (/\ LoadButtonClick
         /\ \/ Len(fileInput) = 0
            \/ \A i \in DOMAIN queryText : queryText[i] \in {" ", "\t", "\n"})
          => /\ lastAlert' \in {"Please select a parquet file first",
                                "Please enter a query"}
             /\ UNCHANGED <<lastQueryResults, plotOptions, view, download, session>>
      ]_vars

C17_Witness ==
    /\ lastAlert = "Please enter a query"
    /\ Len(fileInput) > 0
    /\ Len(queryText) > 0
    /\ loadsStarted = 0
    /\ registeredFiles = {}
    /\ queriesIssued = 0
    /\ progress.display = "none"

(* C18: in every reachable state at most one loadParquetFile execution is  *)
(* between its start and its completion.                                   *)
C18_AtMostOneLoadInFlight == Cardinality(loads) <= 1

(* C19: a ResultSet without an origin column is never rendered with        *)
(* plotOptions.xAxisColumn = "filename_index", and the x-axis selector     *)
(* offers that mode exactly when the origin column is present.             *)
C19_FileIndexOnlyWithOrigin ==
    Rendered =>
        /\ "filename" \notin DOMAIN Rows[1] => XAxisColumn # "filename_index"
        /\ ("filename_index" \in Range(xAxisSelect)) <=> ("filename" \in DOMAIN Rows[1])

(* C20: a query that succeeds with zero rows stores the empty sequence,    *)
(* not null, in place of any earlier result; with it stored, an export     *)
(* click gives the "No data to export" notice and a plot click shows a     *)
(* "no data" text, neither asks to run a query first.                      *)
C20_EmptyResultIsAResult ==
    [][ /\ (\E l \in loads : QueryResolves(l, <<>>))
            => (lastQueryResults'.set /\ lastQueryResults'.rows = <<>>)
        /\ (lastQueryResults.set /\ lastQueryResults.rows = <<>>)
            => /\ ExportButtonClick
                    => (lastAlert' = "No data to export" /\ UNCHANGED download)
               /\ PlotButtonClick
                    => /\ UNCHANGED <<lastAlert, currentPlots>>
                       /\ \/ plotContainer'.html = "No data to plot"
                          \/ tableContainer'.html = "No data to display"
      ]_vars

C20_Witness ==
    /\ lastQueryResults.set
    /\ lastQueryResults.rows = <<>>
    /\ Len(currentPlots) > 0
    /\ lastAlert = "No data to export"
    /\ plotContainer.html = "No data to plot"

(* C21: resize events are debounced: at any time at most one resize timer *)
(* is pending, no setSize pass runs while a timer is pending after the     *)
(* last resize event, and at most one pass follows that event; this holds  *)
(* also when the plots are rendered again while a timer is pending.        *)
C21_ResizeDebounced ==
    /\ Cardinality(timers) <= 1
    /\ timers # {} => passesSinceResize = 0
    /\ passesSinceResize <= 1

(* C22: whenever no load is in flight the progress bar is hidden: every    *)
(* load hides it when it ends, with its rows stored or in its catch block, *)
(* also when loads overlap.                                                *)
C22_ProgressHiddenWhenIdle ==
    loads = {} => progress.display = "none"

C22_Witness ==
    /\ loads = {}
    /\ succeeded = {1, 2}
    /\ storedBy = 1
    /\ progress.display = "none"
    /\ progress.percent = 100

(* C23: in every subplot handed to the charting widget, in single-file and *)
(* multi-file mode and in every x-axis mode, the x sequence and every y    *)
(* sequence have the same length.                                          *)
C23_AlignedChartData ==
    Rendered =>
        \A p \in DOMAIN currentPlots :
            \A k \in DOMAIN currentPlots[p].data :
                Len(currentPlots[p].data[k]) = Len(currentPlots[p].data[1])

(* C24: once no load is in flight and the most recently triggered load has *)
(* stored its rows, lastQueryResults is that load's assignment, whatever   *)
(* the order in which the loads ended.                                     *)
C24_LatestLoadWins ==
    (loads = {} /\ loadsStarted \in succeeded) => storedBy = loadsStarted

(* C25: a load that ends with its rows stored leaves the table view shown: *)
(* the table container displayed, the plot container hidden and the plot   *)
(* button reading "Plot Data", whatever was shown before and also for zero *)
(* rows.                                                                   *)
C25_TableViewAfterLoad ==
    [][ (\E l \in loads : \E rows \in QueryResults : QueryResolves(l, rows))
          => /\ tableContainer'.display = "block"
             /\ plotContainer'.display = "none"
             /\ plotButtonText' = "Plot Data" ]_vars

====
